---- MODULE Spec2Model ----
(***************************************************************************)
(* The QMP client of package qemu (src/qemu/qmp.go): the engine loop       *)
(* (QMP.mainLoop), the line reader (QMP.readLoop), the callers of          *)
(* QMP.ExecuteCommand, QMP.Shutdown and the receiver of connectedCh.       *)
(*                                                                         *)
(* Go's unbuffered channels are modelled as rendezvous: a send and its     *)
(* receive are one step.  The engine is cut exactly where it can block:    *)
(* in its two selects, on `cmd.res <- ...`, on `q.cfg.EventCh <- ev`, on   *)
(* `q.connectedCh <- ...`, on `<-fromVMCh` of the deferred teardown and in *)
(* the select of failOutstandingCommands.  Everything between two such     *)
(* points is one step.                                                     *)
(***************************************************************************)
EXTENDS Integers, Sequences, FiniteSets, TLC

\* ------------------------------------------------------------- bounds
\* Number of ExecuteCommand calls of a session.
MaxCmds == 2
\* Number of lines the remote side sends on the socket.
MaxLines == 3

\* Largest `seconds` of an event's timestamp.
MaxSeconds == 5
\* Largest version number of a greeting.
MaxVersionNumber == 1

Cmds == 1..MaxCmds

\* ------------------------------------------------------------- inputs
\* qmpEventFilter values; NoFilter is the nil *qmpEventFilter.
NoFilter == [eventName |-> "", dataKey |-> "", dataValue |-> ""]
PowerdownFilter == [eventName |-> "SHUTDOWN", dataKey |-> "", dataValue |-> ""]
DeviceDelFilter == [eventName |-> "DEVICE_DELETED", dataKey |-> "device", dataValue |-> "net0"]
Filters == {NoFilter, PowerdownFilter, DeviceDelFilter}

\* A line read from the socket.  json: it decodes to an object; keys: which
\* of the top-level keys "event", "return", "error", "QMP" it carries;
\* event: the value of "event"; hasData/device: the "data" object and its
\* value at key "device" ("nil" when the key is absent).
Line(json, keys, event, hasData, device) ==
    [json |-> json, keys |-> keys, event |-> event, hasData |-> hasData, device |-> device]
Garbage == Line(FALSE, {}, "", FALSE, "nil")
EmptyObject == Line(TRUE, {}, "", FALSE, "nil")
Greeting == Line(TRUE, {"QMP"}, "", FALSE, "nil")
ReturnReply == Line(TRUE, {"return"}, "", FALSE, "nil")
ErrorReply == Line(TRUE, {"error"}, "", FALSE, "nil")
ReturnErrorReply == Line(TRUE, {"return", "error"}, "", FALSE, "nil")
ShutdownEvent == Line(TRUE, {"event"}, "SHUTDOWN", FALSE, "nil")
DeviceDeletedNet0 == Line(TRUE, {"event"}, "DEVICE_DELETED", TRUE, "net0")
DeviceDeletedOther0 == Line(TRUE, {"event"}, "DEVICE_DELETED", TRUE, "other0")
\* DEVICE_DELETED whose data holds no "device" key.
DeviceDeletedNoDevice == Line(TRUE, {"event"}, "DEVICE_DELETED", TRUE, "nil")
\* A value of "event" that is not a JSON string, as in {"event": 7}.
NotAString == "<number>"
NumberEvent == Line(TRUE, {"event"}, NotAString, FALSE, "nil")
Lines == {Garbage, EmptyObject, Greeting, ReturnReply, ErrorReply, ReturnErrorReply,
          ShutdownEvent, DeviceDeletedNet0, DeviceDeletedOther0, DeviceDeletedNoDevice,
          NumberEvent}

\* QMPEvent, without its timestamp; NoEvent when the engine holds none.
QMPEvent(l) == [Name |-> l.event, hasData |-> l.hasData, device |-> l.device]
NoEvent == [Name |-> "", hasData |-> FALSE, device |-> "nil"]

\* A value found at a key of a decoded object where a number is expected:
\* "missing", "wrongType" (not a float64) or "number" with its value.
Absent == [kind |-> "missing", v |-> 0]
Mistyped == [kind |-> "wrongType", v |-> 0]
Number(n) == [kind |-> "number", v |-> n]
\* x, _ := m[key].(float64): zero unless a number.
Float64(x) == IF x.kind = "number" THEN x.v ELSE 0

\* The "timestamp" value of an event message: absent (nil), not an object,
\* or an object with whatever stands at "seconds" and "microseconds".
NanosPerSecond == 1000000000
MicrosecondValues == {0, 1, 999, 500000, 999999}
NoTimestamp == [kind |-> "nil", seconds |-> Absent, microseconds |-> Absent]
TimestampNotAMap == [kind |-> "notMap", seconds |-> Absent, microseconds |-> Absent]
Timestamps ==
    {NoTimestamp, TimestampNotAMap} \cup
    [kind : {"map"},
     seconds : {Absent, Mistyped} \cup {Number(n) : n \in 0..MaxSeconds},
     microseconds : {Absent, Mistyped} \cup {Number(n) : n \in MicrosecondValues}]

\* A time.Time: the zero Time, or an instant as seconds and nanoseconds
\* since the epoch.
ZeroTime == [set |-> FALSE, sec |-> 0, nsec |-> 0]
\* time.Unix(sec, nsec): nsec is a count of nanoseconds, carried into sec.
Unix(sec, nsec) ==
    [set |-> TRUE, sec |-> sec + (nsec \div NanosPerSecond), nsec |-> nsec % NanosPerSecond]

\* processQMPEvent, lines 193-200.
EventTimestamp(ts) ==
    IF ts.kind = "map"
    THEN Unix(Float64(ts.seconds), Float64(ts.microseconds))
    ELSE ZeroTime

\* A decoded greeting.  QMP, version, qemu: what stands at the key, "missing",
\* "wrongType" (not an object) or "map"; version lies in QMP and qemu in
\* version, so below a key that is no object everything is missing.  major,
\* minor, micro: values at the keys of qemu; capabilities: the value at the
\* key of QMP, with the elements of the list.
Shapes == {"missing", "wrongType", "map"}
NumberValues == {Absent, Mistyped} \cup {Number(n) : n \in 0..MaxVersionNumber}
CapabilityValues ==
    {[kind |-> "missing", elems |-> <<>>], [kind |-> "wrongType", elems |-> <<>>],
     [kind |-> "list", elems |-> <<>>], [kind |-> "list", elems |-> <<"oob">>],
     [kind |-> "list", elems |-> <<NotAString, "oob">>]}
Greetings ==
    {g \in [json : BOOLEAN, QMP : Shapes, version : Shapes, qemu : Shapes,
            major : NumberValues, minor : NumberValues, micro : NumberValues,
            capabilities : CapabilityValues] :
        /\ (~g.json => g.QMP = "missing")
        /\ (g.QMP # "map" => g.version = "missing" /\ g.capabilities.kind = "missing")
        /\ (g.version # "map" => g.qemu = "missing")
        /\ (g.qemu # "map" => g.major = Absent /\ g.minor = Absent /\ g.micro = Absent)}
\* The greeting QEMU sends, and a line that holds no greeting.
FullGreeting ==
    [json |-> TRUE, QMP |-> "map", version |-> "map", qemu |-> "map",
     major |-> Number(1), minor |-> Number(0), micro |-> Number(0),
     capabilities |-> [kind |-> "list", elems |-> <<>>]]
NoGreeting(json) ==
    [json |-> json, QMP |-> "missing", version |-> "missing", qemu |-> "missing",
     major |-> Absent, minor |-> Absent, micro |-> Absent,
     capabilities |-> [kind |-> "missing", elems |-> <<>>]]
\* The line of the session, decoded as a greeting.
GreetingOf(l) == IF l.json /\ "QMP" \in l.keys THEN FullGreeting ELSE NoGreeting(l.json)

\* *QMPVersion: nil, or the version.
NilVersion == [nil |-> TRUE, Major |-> 0, Minor |-> 0, Micro |-> 0, Capabilities |-> <<>>]
QMPVersion(major, minor, micro, caps) ==
    [nil |-> FALSE, Major |-> major, Minor |-> minor, Micro |-> micro, Capabilities |-> caps]

\* A reply in the sense of the wire contract: exactly one of return, error.
IsEvent(l) == l.json /\ "event" \in l.keys
IsReply(l) == l.json /\ "event" \notin l.keys
              /\ (("return" \in l.keys) # ("error" \in l.keys))

VARIABLES
    pc,             \* where mainLoop stands
    after,          \* what follows the pending `cmd.res <-` send
    ret,            \* where the engine goes once the current handler returns
    cur,            \* the command whose result channel the engine sends on
    curRes,         \* the qmpResult being sent
    cmdQueue,       \* mainLoop's cmdQueue, as command ids
    filter,         \* cmd.filter of every command
    resultReceived, \* cmd.resultReceived of every command
    marshalOK,      \* whether json.Marshal accepts the command's args
    version,        \* parseVersion of the first line received, "none" before
    wire,           \* every q.conn.Write, in order
    connClosed,     \* q.conn.Close() was called
    eventChClosed,  \* close(q.cfg.EventCh) was called
    cmdChClosed,    \* close(q.cmdCh) was called
    disconnectedChClosed, \* close(q.disconnectedCh) was called
    hasEventCh,     \* q.cfg.EventCh != nil
    failIdx,        \* position of failOutstandingCommands in the queue
    reader,         \* readLoop: "scan", "offer" (blocked on fromVMCh <- line), "closed"
    nread,          \* lines read from the socket so far
    caller,         \* ExecuteCommand of every command: "idle", "waiting", "returned", "panicked"
    outcome,        \* what ExecuteCommand returned
    ctxDone,        \* cmd.ctx.Done() is closed
    starter,        \* the receiver of connectedCh (QMPStart)
    attempts,       \* history: sends started on cmd.res, per command
    fin,            \* history: how the engine took the command off the queue
    matched,        \* history: a matching event was processed while the command was head
    nReplies,       \* history: replies processed with a non-empty queue
    faults,         \* history: a marshal or a write has failed
    ev,             \* the QMPEvent the engine is to send on q.cfg.EventCh
    decodeErr,      \* err of json.Unmarshal in the call of processQMPInput that handled
                    \* the engine's last input was not nil
    nEarly,         \* history: commands accepted by the first select of mainLoop
    ignored,        \* why that call dropped a decoded object: "noResult" (line 240),
                    \* "unexpectedReply" (line 247), "none" if it did not
    lateShutdown,   \* history: Shutdown was called with disconnectedCh already closed
    timestamp,      \* processQMPEvent's argument timestamp (the message's "timestamp")
    evTimestamp,    \* ev.Timestamp of the QMPEvent built from it
    greeting,       \* parseVersion's argument, decoded
    qmpVersion,     \* what parseVersion returned for it
    encoder,        \* writeNextQMPCommand on its own: the qmpCommand it encodes and
                    \* what it passed to q.conn.Write for it
    tracer          \* the Tracer of src/unnamed/part_000 and the calls on it

vars == <<pc, after, ret, cur, curRes, cmdQueue, filter, resultReceived, marshalOK,
          version, wire, connClosed, eventChClosed, cmdChClosed, disconnectedChClosed,
          hasEventCh, failIdx, reader, nread, caller, outcome, ctxDone, starter,
          attempts, fin, matched, nReplies, faults, ev, decodeErr, nEarly, ignored,
          lateShutdown, timestamp, evTimestamp, greeting, qmpVersion,
          encoder, tracer>>

\* The variables of the QMP session.
sessionVars == <<pc, after, ret, cur, curRes, cmdQueue, filter, resultReceived, marshalOK,
                 version, wire, connClosed, eventChClosed, cmdChClosed,
                 disconnectedChClosed, hasEventCh, failIdx, reader, nread, caller,
                 outcome, ctxDone, starter, attempts, fin, matched, nReplies, faults,
                 ev, decodeErr, nEarly, ignored, lateShutdown>>

\* The variables of the two conversions, which the session does not touch.
convVars == <<timestamp, evTimestamp, greeting, qmpVersion>>
\* The variables of the command encoding, and those of the tracer
\* (src/unnamed/part_000), which the session does not touch either.
encVars == <<encoder>>
tracerVars == <<tracer>>

\* The qmpCommand writeNextQMPCommand encodes: its name and args.
encCmd == encoder.cmd
\* What writeNextQMPCommand passed to q.conn.Write for it.
written == encoder.written

\* t.status.status.
status == tracer.status
\* Who holds the mutex t.status.
statusLock == tracer.statusLock
\* The spans buffered in t.spanChannel, each named by its Trace call.
spanChannel == tracer.spanChannel
\* How many times close(t.stopChannel) was executed.
stopChannelCloses == tracer.stopChannelCloses
\* Where NewTracer stands: "select", "running", "couldNotStart", "stop"
\* (in its call of Stop), "timedOut".
newTracer == tracer.newTracer
\* Where dialAndListen and spanListener stand: "dial", "dialFailed", "start",
\* "announce" (at the send on t.statusChannel), "listen", "exited".
listener == tracer.listener
\* Every Trace call: "idle", "lock", "send", "traced", "notRunning".
tracePc == tracer.tracePc
\* Every Stop call of the handle's holder: "idle", "lock", "returned".
stopPc == tracer.stopPc
\* History: the Stop call that closed t.stopChannel, 0 if none.
closedBy == tracer.closedBy
\* History: the Trace call was made after that Stop call had returned.
afterStop == tracer.afterStop

\* The part of the state the engine's handlers change, as one record.
EngineState ==
    [pc |-> pc, after |-> after, ret |-> ret, cur |-> cur, curRes |-> curRes,
     cmdQueue |-> cmdQueue, filter |-> filter, resultReceived |-> resultReceived,
     marshalOK |-> marshalOK, wire |-> wire, attempts |-> attempts, fin |-> fin, matched |-> matched,
     nReplies |-> nReplies, faults |-> faults, ev |-> ev, decodeErr |-> decodeErr,
     nEarly |-> nEarly, ignored |-> ignored]

Install(s) ==
    /\ pc' = s.pc
    /\ after' = s.after
    /\ ret' = s.ret
    /\ cur' = s.cur
    /\ curRes' = s.curRes
    /\ cmdQueue' = s.cmdQueue
    /\ filter' = s.filter
    /\ resultReceived' = s.resultReceived
    /\ marshalOK' = s.marshalOK
    /\ wire' = s.wire
    /\ attempts' = s.attempts
    /\ fin' = s.fin
    /\ matched' = s.matched
    /\ nReplies' = s.nReplies
    /\ faults' = s.faults
    /\ ev' = s.ev
    /\ decodeErr' = s.decodeErr
    /\ nEarly' = s.nEarly
    /\ ignored' = s.ignored

\* cmdQueue.Remove(cmdEl): a no-op when the element is no longer in the list.
Remove(q, c) == SelectSeq(q, LAMBDA x : x # c)

\* How many times command c was written to the transport.
Writes(w, c) == Cardinality({i \in 1..Len(w) : w[i].cmd = c /\ ~w[i].blank})

\* ------------------------------------------------------------ handlers
\* The handler returns to its caller: "run" and "connect" are places of
\* mainLoop, "event" is the rest of processQMPEvent (lines 188-203), which
\* blocks on `q.cfg.EventCh <- ev` when a subscriber is registered.
ReturnTo(s, r) ==
    IF r = "event"
    THEN [s EXCEPT !.pc = IF hasEventCh THEN "sendEvent" ELSE "run",
                   !.after = "", !.ret = "", !.cur = 0, !.curRes = ""]
    ELSE [s EXCEPT !.pc = r, !.after = "", !.ret = "", !.cur = 0, !.curRes = ""]

\* The engine starts the blocking send `cmd.res <- res`.
SendRes(s, c, res, aft, r) ==
    [s EXCEPT !.pc = "sendRes", !.cur = c, !.curRes = res, !.after = aft, !.ret = r,
              !.attempts[c] = @ + 1]

\* writeNextQMPCommand, lines 273-281: the write, and its failure branch.
\* wok: whether the transport accepts the write.
ConnWrite(s, c, blank, wok, r) ==
    LET s1 == [s EXCEPT !.wire = Append(@, [cmd |-> c, blank |-> blank])]
    IN  IF wok
        THEN ReturnTo(s1, r)
        ELSE SendRes([s1 EXCEPT !.faults = TRUE], c, "writeErr", "afterWriteFail", r)

\* writeNextQMPCommand taking the newest entry (cmdQueue.Back()) instead of
\* the head.
writeNextQMPCommand_Back(s, wok, r) ==
    LET c == s.cmdQueue[Len(s.cmdQueue)]
    IN  IF ~s.marshalOK[c]
        THEN SendRes([s EXCEPT !.faults = TRUE], c, "marshalErr", "afterMarshalFail", r)
        ELSE ConnWrite(s, c, FALSE, wok, r)

\* writeNextQMPCommand, lines 257-272: the head is marshalled; a marshal
\* failure sends on cmd.res before anything is written.
writeNextQMPCommand(s, wok, r) ==
    LET c == Head(s.cmdQueue)
    IN  IF ~s.marshalOK[c]
        THEN SendRes([s EXCEPT !.faults = TRUE], c, "marshalErr", "afterMarshalFail", r)
        ELSE ConnWrite(s, c, FALSE, wok, r)

\* finaliseCommand, lines 218-220.
AfterFinalise(s, wok, r) ==
    IF Len(s.cmdQueue) > 0 THEN writeNextQMPCommand(s, wok, r) ELSE ReturnTo(s, r)

\* finaliseCommand with the two results swapped.
finaliseCommand_Swapped(s, c, succeeded, how, wok, r) ==
    LET s1 == [s EXCEPT !.cmdQueue = Remove(@, c), !.fin[c] = how]
    IN  IF ctxDone[c]
        THEN AfterFinalise(s1, wok, r)
        ELSE SendRes(s1, c, IF succeeded THEN "failed" ELSE "ok", "afterFinalise", r)

\* finaliseCommand sending the result without polling cmd.ctx.Done().
finaliseCommand_NoCtxPoll(s, c, succeeded, how, wok, r) ==
    SendRes([s EXCEPT !.cmdQueue = Remove(@, c), !.fin[c] = how],
            c, IF succeeded THEN "ok" ELSE "failed", "afterFinalise", r)

\* finaliseCommand, lines 206-217: the command is removed, cmd.ctx.Done() is
\* polled, and if it is not closed the engine sends the result.
finaliseCommand(s, c, succeeded, how, wok, r) ==
    LET s1 == [s EXCEPT !.cmdQueue = Remove(@, c), !.fin[c] = how]
    IN  IF ctxDone[c]
        THEN AfterFinalise(s1, wok, r)
        ELSE SendRes(s1, c, IF succeeded THEN "ok" ELSE "failed", "afterFinalise", r)

\* What follows a completed `cmd.res <-` send.
AfterSend(s, wok) ==
    CASE s.after = "afterMarshalFail" ->
           \* lines 271-281: the command is removed, and the (empty) encoding
           \* is written all the same.
           ConnWrite([s EXCEPT !.cmdQueue = Remove(@, s.cur), !.fin[s.cur] = "marshalFail"],
                     s.cur, TRUE, wok, s.ret)
      [] s.after = "afterWriteFail" ->
           \* line 280
           ReturnTo([s EXCEPT !.cmdQueue = Remove(@, s.cur),
                              !.fin[s.cur] = IF @ = "none" THEN "writeFail" ELSE @],
                    s.ret)
      [] OTHER -> AfterFinalise(s, wok, s.ret)

\* processQMPEvent, lines 173-176.
EventData(l, key) == IF l.hasData /\ key = "device" THEN l.device ELSE "nil"
\* The data of the event left out of the comparison.
Match_NameOnly(f, l) == TRUE
Match(f, l) ==
    \/ f.dataKey = ""
    \/ l.hasData /\ EventData(l, f.dataKey) = f.dataValue

\* processQMPEvent, lines 188-201: the QMPEvent built for the subscriber,
\* if there is one.
WithEvent(s, l) == IF hasEventCh THEN [s EXCEPT !.ev = QMPEvent(l)] ELSE s

\* processQMPEvent finalising on the matching event without looking at
\* cmd.resultReceived.
processQMPEvent_NoReplyCheck(s0, l, wok) ==
    LET s == WithEvent(s0, l)
    IN  IF l.event = NotAString THEN ReturnTo(s0, "run")
        ELSE IF Len(s.cmdQueue) = 0
        THEN ReturnTo(s, "event")
        ELSE LET c == Head(s.cmdQueue)
                 f == s.filter[c]
             IN  IF f # NoFilter /\ f.eventName = l.event /\ Match(f, l)
                 THEN finaliseCommand([s EXCEPT !.matched[c] = TRUE], c, TRUE, "event", wok, "event")
                 ELSE ReturnTo(s, "event")

\* processQMPEvent correlating the event with every queued command instead
\* of the head alone.
processQMPEvent_AnyCmd(s0, l, wok) ==
    LET s == WithEvent(s0, l)
        hit == {c \in Cmds : /\ \E i \in 1..Len(s.cmdQueue) : s.cmdQueue[i] = c
                             /\ s.filter[c] # NoFilter
                             /\ s.filter[c].eventName = l.event
                             /\ Match(s.filter[c], l)}
        s1 == [s EXCEPT !.matched = [c \in Cmds |-> @[c] \/ c \in hit],
                        !.filter = [c \in Cmds |-> IF c \in hit /\ ~s.resultReceived[c]
                                                   THEN NoFilter ELSE @[c]]]
    IN  IF l.event = NotAString THEN ReturnTo(s0, "run")
        ELSE IF Len(s.cmdQueue) > 0 /\ Head(s.cmdQueue) \in hit
                /\ s.resultReceived[Head(s.cmdQueue)]
        THEN finaliseCommand(s1, Head(s.cmdQueue), TRUE, "event", wok, "event")
        ELSE ReturnTo(s1, "event")

\* processQMPEvent returning once a matching event has finalised the head,
\* without delivering the event.
processQMPEvent_SkipOnMatch(s0, l, wok) ==
    LET s == WithEvent(s0, l)
    IN  IF l.event = NotAString THEN ReturnTo(s0, "run")
        ELSE IF Len(s.cmdQueue) = 0
        THEN ReturnTo(s, "event")
        ELSE LET c == Head(s.cmdQueue)
                 f == s.filter[c]
             IN  IF f # NoFilter /\ f.eventName = l.event /\ Match(f, l)
                 THEN LET s1 == [s EXCEPT !.matched[c] = TRUE]
                      IN  IF s.resultReceived[c]
                          THEN finaliseCommand([s1 EXCEPT !.ev = NoEvent], c, TRUE, "event", wok, "run")
                          ELSE ReturnTo([s1 EXCEPT !.filter[c] = NoFilter], "event")
                 ELSE ReturnTo(s, "event")

\* processQMPEvent, lines 157-160: an event whose name is not a string is
\* dropped; lines 167-186: the correlation with the head; then the delivery
\* to the subscriber.
processQMPEvent(s0, l, wok) ==
    LET s == WithEvent(s0, l)
    IN  IF l.event = NotAString THEN ReturnTo(s0, "run")
        ELSE IF Len(s.cmdQueue) = 0
        THEN ReturnTo(s, "event")
        ELSE LET c == Head(s.cmdQueue)
                 f == s.filter[c]
             IN  IF f # NoFilter /\ f.eventName = l.event /\ Match(f, l)
                 THEN LET s1 == [s EXCEPT !.matched[c] = TRUE]
                      IN  IF s.resultReceived[c]
                          THEN finaliseCommand(s1, c, TRUE, "event", wok, "event")
                          ELSE ReturnTo([s1 EXCEPT !.filter[c] = NoFilter], "event")
                 ELSE ReturnTo(s, "event")

\* processQMPInput finalising a filtered command on a second success reply.
processQMPInput_SecondReply(s0, l, wok) ==
    LET s == [s0 EXCEPT !.decodeErr = ~l.json, !.ignored = "none"]
    IN
    IF ~l.json THEN ReturnTo(s, "run")
    ELSE IF "event" \in l.keys THEN processQMPEvent(s, l, wok)
    ELSE LET succeeded == "return" \in l.keys
             failed == "error" \in l.keys
         IN  IF ~succeeded /\ ~failed
             THEN ReturnTo([s EXCEPT !.ignored = "noResult"], "run")
             ELSE IF Len(s.cmdQueue) = 0
             THEN ReturnTo([s EXCEPT !.ignored = "unexpectedReply"], "run")
             ELSE LET c == Head(s.cmdQueue)
                      s1 == [s EXCEPT !.nReplies = @ + 1]
                  IN  IF failed \/ s.filter[c] = NoFilter \/ s.resultReceived[c]
                      THEN finaliseCommand(s1, c, succeeded,
                                           IF ~failed THEN "replyReturn"
                                           ELSE IF succeeded THEN "replyBoth"
                                           ELSE "replyError",
                                           wok, "run")
                      ELSE ReturnTo([s1 EXCEPT !.resultReceived[c] = TRUE], "run")

\* processQMPInput taking a line that does not decode as a failed reply.
processQMPInput_DecodeErrFails(s0, l, wok) ==
    LET s == [s0 EXCEPT !.decodeErr = ~l.json, !.ignored = "none"]
    IN
    IF l.json /\ "event" \in l.keys THEN processQMPEvent(s, l, wok)
    ELSE LET succeeded == l.json /\ "return" \in l.keys
             failed == ~l.json \/ "error" \in l.keys
         IN  IF ~succeeded /\ ~failed
             THEN ReturnTo([s EXCEPT !.ignored = "noResult"], "run")
             ELSE IF Len(s.cmdQueue) = 0
             THEN ReturnTo([s EXCEPT !.ignored = "unexpectedReply"], "run")
             ELSE LET c == Head(s.cmdQueue)
                      s1 == [s EXCEPT !.nReplies = @ + 1]
                  IN  IF failed \/ s.filter[c] = NoFilter
                      THEN finaliseCommand(s1, c, succeeded,
                                           IF ~failed THEN "replyReturn"
                                           ELSE IF succeeded THEN "replyBoth"
                                           ELSE "replyError",
                                           wok, "run")
                      ELSE ReturnTo([s1 EXCEPT !.resultReceived[c] = TRUE], "run")

\* processQMPInput keeping a filtered head waiting for its event whatever
\* the reply.
processQMPInput_FilterFirst(s0, l, wok) ==
    LET s == [s0 EXCEPT !.decodeErr = ~l.json, !.ignored = "none"]
    IN
    IF ~l.json THEN ReturnTo(s, "run")
    ELSE IF "event" \in l.keys THEN processQMPEvent(s, l, wok)
    ELSE LET succeeded == "return" \in l.keys
             failed == "error" \in l.keys
         IN  IF ~succeeded /\ ~failed
             THEN ReturnTo([s EXCEPT !.ignored = "noResult"], "run")
             ELSE IF Len(s.cmdQueue) = 0
             THEN ReturnTo([s EXCEPT !.ignored = "unexpectedReply"], "run")
             ELSE LET c == Head(s.cmdQueue)
                      s1 == [s EXCEPT !.nReplies = @ + 1]
                  IN  IF s.filter[c] = NoFilter
                      THEN finaliseCommand(s1, c, succeeded,
                                           IF ~failed THEN "replyReturn"
                                           ELSE IF succeeded THEN "replyBoth"
                                           ELSE "replyError",
                                           wok, "run")
                      ELSE ReturnTo([s1 EXCEPT !.resultReceived[c] = TRUE], "run")

\* processQMPInput taking an object with neither return nor error as a
\* failed reply to the head.
processQMPInput_NoResultFails(s0, l, wok) ==
    LET s == [s0 EXCEPT !.decodeErr = ~l.json, !.ignored = "none"]
    IN
    IF ~l.json THEN ReturnTo(s, "run")
    ELSE IF "event" \in l.keys THEN processQMPEvent(s, l, wok)
    ELSE LET succeeded == "return" \in l.keys
             failed == "error" \in l.keys
         IN  IF Len(s.cmdQueue) = 0
             THEN ReturnTo([s EXCEPT !.ignored = "unexpectedReply"], "run")
             ELSE LET c == Head(s.cmdQueue)
                      s1 == [s EXCEPT !.nReplies = @ + 1]
                  IN  IF ~succeeded \/ s.filter[c] = NoFilter
                      THEN finaliseCommand(s1, c, succeeded,
                                           IF ~failed THEN "replyReturn"
                                           ELSE IF succeeded THEN "replyBoth"
                                           ELSE "replyError",
                                           wok, "run")
                      ELSE ReturnTo([s1 EXCEPT !.resultReceived[c] = TRUE], "run")

\* processQMPInput, lines 223-255.
processQMPInput(s0, l, wok) ==
    LET s == [s0 EXCEPT !.decodeErr = ~l.json, !.ignored = "none"]
    IN
    IF ~l.json THEN ReturnTo(s, "run")
    ELSE IF "event" \in l.keys THEN processQMPEvent(s, l, wok)
    ELSE LET succeeded == "return" \in l.keys
             failed == "error" \in l.keys
         IN  IF ~succeeded /\ ~failed
             THEN ReturnTo([s EXCEPT !.ignored = "noResult"], "run")
             ELSE IF Len(s.cmdQueue) = 0
             THEN ReturnTo([s EXCEPT !.ignored = "unexpectedReply"], "run")
             ELSE LET c == Head(s.cmdQueue)
                      s1 == [s EXCEPT !.nReplies = @ + 1]
                  IN  IF failed \/ s.filter[c] = NoFilter
                      THEN finaliseCommand(s1, c, succeeded,
                                           IF ~failed THEN "replyReturn"
                                           ELSE IF succeeded THEN "replyBoth"
                                           ELSE "replyError",
                                           wok, "run")
                      ELSE ReturnTo([s1 EXCEPT !.resultReceived[c] = TRUE], "run")

\* parseVersion, lines 296-328: nil unless the greeting decodes and holds
\* objects at QMP, QMP.version and QMP.version.qemu; the numbers and the
\* capabilities are taken as they come, zero or empty when missing or of
\* another type, and elements of capabilities that are no strings are left
\* out.
parseVersionOf(g) ==
    IF ~g.json \/ g.QMP # "map" \/ g.version # "map" \/ g.qemu # "map"
    THEN NilVersion
    ELSE QMPVersion(Float64(g.major), Float64(g.minor), Float64(g.micro),
                    SelectSeq(g.capabilities.elems, LAMBDA c : c # NotAString))

\* parseVersion of a line of the session: "nil" or "version".
parseVersion(l) == IF parseVersionOf(GreetingOf(l)).nil THEN "nil" ELSE "version"

\* The command put at the front of the queue (cmdQueue.PushFront).
PushBack_Front(s, c, f, m) ==
    [s EXCEPT !.cmdQueue = <<c>> \o @, !.filter[c] = f, !.marshalOK[c] = m]

\* cmdQueue.PushBack(&cmd), with the command's fields.
PushBack(s, c, f, m) ==
    [s EXCEPT !.cmdQueue = Append(@, c), !.filter[c] = f, !.marshalOK[c] = m]

\* ------------------------------------------------- the command encoding
\* A qmpCommand as writeNextQMPCommand reads it: its name, and its args, a
\* nil map or a map from keys to values.  Unencodable stands for a value
\* json.Marshal rejects (a channel, a function).
CommandNames == {"qmp_capabilities", "device_del", "system_powerdown"}
ArgKeys == {"id", "bus"}
Unencodable == "<chan>"
ArgValues == {"net0", "pci.0", Unencodable}
NilArgs == [nil |-> TRUE, map |-> <<>>]
Args == {NilArgs} \cup
        {[nil |-> FALSE, map |-> m] : m \in UNION {[K -> ArgValues] : K \in SUBSET ArgKeys}}
Commands == [name : CommandNames, args : Args]
NoCommand == [name |-> "", args |-> NilArgs]

\* cmdData, lines 260-264: the keys it holds and the values at "execute" and
\* "arguments".
NoObject == [keys |-> {}, execute |-> "", arguments |-> <<>>]
CmdData(c) ==
    [keys |-> IF c.args.nil THEN {"execute"} ELSE {"execute", "arguments"},
     execute |-> c.name,
     arguments |-> IF c.args.nil THEN <<>> ELSE c.args.map]

\* json.Marshal(&cmdData): the text of the object, or an error and nil bytes.
NoText == [empty |-> TRUE, object |-> NoObject]
Marshal(d) ==
    IF "arguments" \in d.keys /\ \E k \in DOMAIN d.arguments : d.arguments[k] = Unencodable
    THEN [err |-> TRUE, text |-> NoText]
    ELSE [err |-> FALSE, text |-> [empty |-> FALSE, object |-> d]]

\* Lines 265-275: what q.conn.Write is given, the encoding and a newline; the
\* marshal error does not end the function, so the write is made with the
\* nil encoding too.
NothingWritten == [text |-> NoText, newline |-> FALSE]
EncodedLine(c) == [text |-> Marshal(CmdData(c)).text, newline |-> TRUE]

\* -------------------------------------------------------------- Tracer
\* Trace and Stop calls made by the holder of the handle NewTracer returns.
MaxTraces == 2
MaxStops == 2
\* Capacity of t.spanChannel.
MaxSpans == 1

Traces == 1..MaxTraces
Stops == 1..MaxStops

\* Who may hold the mutex t.status.
Free == <<"free", 0>>
SpanListener == <<"spanListener", 0>>
TraceCall(i) == <<"Trace", i>>

\* The variables of the conversions, of the encoding and of the tracer where
\* they are not exercised: no input yet, and the Tracer as NewTracer builds
\* it (lines 142-158), with dialAndListen started.
ConversionsUnused ==
    /\ timestamp = NoTimestamp
    /\ evTimestamp = ZeroTime
    /\ greeting = NoGreeting(FALSE)
    /\ qmpVersion = NilVersion

EncodingUnused ==
    encoder = [cmd |-> NoCommand, written |-> NothingWritten]

TracerCreated ==
    tracer = [status |-> "stopped",
              statusLock |-> Free,
              spanChannel |-> <<>>,
              stopChannelCloses |-> 0,
              newTracer |-> "select",
              listener |-> "dial",
              tracePc |-> [i \in Traces |-> "idle"],
              stopPc |-> [j \in Stops |-> "idle"],
              closedBy |-> 0,
              afterStop |-> [i \in Traces |-> FALSE]]

\* ---------------------------------------------------------------- Init
\* The state startQMPLoop leaves: an empty queue, mainLoop in its first
\* select, readLoop scanning, nobody calling yet.
SessionInit ==
    /\ pc = "handshake"
    /\ after = ""
    /\ ret = ""
    /\ cur = 0
    /\ curRes = ""
    /\ cmdQueue = <<>>
    /\ filter = [c \in Cmds |-> NoFilter]
    /\ resultReceived = [c \in Cmds |-> FALSE]
    /\ marshalOK = [c \in Cmds |-> TRUE]
    /\ version = "none"
    /\ wire = <<>>
    /\ connClosed = FALSE
    /\ eventChClosed = FALSE
    /\ cmdChClosed = FALSE
    /\ disconnectedChClosed = FALSE
    /\ hasEventCh \in BOOLEAN
    /\ failIdx = 0
    /\ reader = "scan"
    /\ nread = 0
    /\ caller = [c \in Cmds |-> "idle"]
    /\ outcome = [c \in Cmds |-> "none"]
    /\ ctxDone = [c \in Cmds |-> FALSE]
    /\ starter = "waiting"
    /\ attempts = [c \in Cmds |-> 0]
    /\ fin = [c \in Cmds |-> "none"]
    /\ matched = [c \in Cmds |-> FALSE]
    /\ nReplies = 0
    /\ faults = FALSE
    /\ ev = NoEvent
    /\ decodeErr = FALSE
    /\ nEarly = 0
    /\ ignored = "none"
    /\ lateShutdown = FALSE

\* The session; the conversions are not applied.
Init ==
    /\ SessionInit
    /\ ConversionsUnused
    /\ EncodingUnused
    /\ TracerCreated

\* ------------------------------------------------------------- readLoop
\* scanner.Scan() returns a line; readLoop blocks on `fromVMCh <- line`.
ReadLine ==
    /\ reader = "scan"
    /\ nread < MaxLines
    /\ reader' = "offer"
    /\ nread' = nread + 1
    /\ UNCHANGED <<pc, after, ret, cur, curRes, cmdQueue, filter, resultReceived,
                   marshalOK, version, wire, connClosed, eventChClosed, cmdChClosed,
                   disconnectedChClosed, hasEventCh, failIdx, caller, outcome, ctxDone,
                   starter, attempts, fin, matched, nReplies, faults,
                   ev, decodeErr, nEarly, ignored,
                   lateShutdown, convVars, encVars, tracerVars>>

\* scanner.Scan() returns false (end of stream, read error, closed
\* connection): close(fromVMCh).
ReadEOF ==
    /\ reader = "scan"
    /\ reader' = "closed"
    /\ UNCHANGED <<pc, after, ret, cur, curRes, cmdQueue, filter, resultReceived,
                   marshalOK, version, wire, connClosed, eventChClosed, cmdChClosed,
                   disconnectedChClosed, hasEventCh, failIdx, nread, caller,
                   outcome, ctxDone, starter, attempts, fin, matched, nReplies, faults,
                   ev, decodeErr, nEarly, ignored,
                   lateShutdown, convVars, encVars, tracerVars>>

\* ------------------------------------------------------ ExecuteCommand
\* Commands are numbered in the order mainLoop receives them.
NextCmd(c) == caller[c] = "idle" /\ \A d \in Cmds : d < c => caller[d] # "idle"

\* The first select writing the head as the second one does.
SubmitHandshake_Writes(c, f, m) ==
    /\ pc = "handshake"
    /\ ~cmdChClosed
    /\ NextCmd(c)
    /\ caller' = [caller EXCEPT ![c] = "waiting"]
    /\ Install(LET s == [PushBack(EngineState, c, f, m) EXCEPT !.nEarly = @ + 1]
               IN  [s EXCEPT !.wire = Append(@, [cmd |-> Head(s.cmdQueue), blank |-> FALSE])])
    /\ UNCHANGED <<version, connClosed, eventChClosed, cmdChClosed, disconnectedChClosed,
                   hasEventCh, failIdx, reader, nread, outcome, ctxDone, starter,
                   lateShutdown, convVars, encVars, tracerVars>>

\* ExecuteCommand, lines 405-415, the send case, met by mainLoop's first
\* select (lines 351-355): the command is only queued.
SubmitHandshake(c, f, m) ==
    /\ pc = "handshake"
    /\ ~cmdChClosed
    /\ NextCmd(c)
    /\ caller' = [caller EXCEPT ![c] = "waiting"]
    /\ Install([PushBack(EngineState, c, f, m) EXCEPT !.nEarly = @ + 1])
    /\ UNCHANGED <<version, connClosed, eventChClosed, cmdChClosed, disconnectedChClosed,
                   hasEventCh, failIdx, reader, nread, outcome, ctxDone, starter,
                   lateShutdown, convVars, encVars, tracerVars>>

\* The same send met by the second select (lines 371-378): the command is
\* queued and, as cmdQueue.Len() >= 1, writeNextQMPCommand is called.
SubmitRun(c, f, m, wok) ==
    /\ pc = "run"
    /\ ~cmdChClosed
    /\ NextCmd(c)
    /\ caller' = [caller EXCEPT ![c] = "waiting"]
    /\ LET s == [PushBack(EngineState, c, f, m) EXCEPT !.decodeErr = FALSE, !.ignored = "none"]
       IN  Install(IF Len(s.cmdQueue) >= 1
                   THEN writeNextQMPCommand(s, wok, "run")
                   ELSE s)
    /\ UNCHANGED <<version, connClosed, eventChClosed, cmdChClosed, disconnectedChClosed,
                   hasEventCh, failIdx, reader, nread, outcome, ctxDone, starter,
                   lateShutdown, convVars, encVars, tracerVars>>

\* ExecuteCommand, lines 406-407: disconnectedCh is closed.
SubmitRefused(c) ==
    /\ disconnectedChClosed
    /\ NextCmd(c)
    /\ caller' = [caller EXCEPT ![c] = "returned"]
    /\ outcome' = [outcome EXCEPT ![c] = "exiting"]
    /\ UNCHANGED <<pc, after, ret, cur, curRes, cmdQueue, filter, resultReceived,
                   marshalOK, version, wire, connClosed, eventChClosed, cmdChClosed,
                   disconnectedChClosed, hasEventCh, failIdx, reader, nread,
                   ctxDone, starter, attempts, fin, matched, nReplies, faults,
                   ev, decodeErr, nEarly, ignored,
                   lateShutdown, convVars, encVars, tracerVars>>

\* ExecuteCommand, line 408, after Shutdown: a send on the closed q.cmdCh
\* panics.
SubmitPanic(c) ==
    /\ cmdChClosed
    /\ NextCmd(c)
    /\ caller' = [caller EXCEPT ![c] = "panicked"]
    /\ UNCHANGED <<pc, after, ret, cur, curRes, cmdQueue, filter, resultReceived,
                   marshalOK, version, wire, connClosed, eventChClosed, cmdChClosed,
                   disconnectedChClosed, hasEventCh, failIdx, reader, nread,
                   outcome, ctxDone, starter, attempts, fin, matched, nReplies, faults,
                   ev, decodeErr, nEarly, ignored,
                   lateShutdown, convVars, encVars, tracerVars>>

\* The caller's context is cancelled or its deadline passes.
Cancel(c) ==
    /\ caller[c] = "waiting"
    /\ ~ctxDone[c]
    /\ ctxDone' = [ctxDone EXCEPT ![c] = TRUE]
    /\ UNCHANGED <<pc, after, ret, cur, curRes, cmdQueue, filter, resultReceived,
                   marshalOK, version, wire, connClosed, eventChClosed, cmdChClosed,
                   disconnectedChClosed, hasEventCh, failIdx, reader, nread,
                   caller, outcome, starter, attempts, fin, matched, nReplies, faults,
                   ev, decodeErr, nEarly, ignored,
                   lateShutdown, convVars, encVars, tracerVars>>

\* ExecuteCommand, lines 424-425.
ReturnCancelled(c) ==
    /\ caller[c] = "waiting"
    /\ ctxDone[c]
    /\ caller' = [caller EXCEPT ![c] = "returned"]
    /\ outcome' = [outcome EXCEPT ![c] = "cancelled"]
    /\ UNCHANGED <<pc, after, ret, cur, curRes, cmdQueue, filter, resultReceived,
                   marshalOK, version, wire, connClosed, eventChClosed, cmdChClosed,
                   disconnectedChClosed, hasEventCh, failIdx, reader, nread,
                   ctxDone, starter, attempts, fin, matched, nReplies, faults,
                   ev, decodeErr, nEarly, ignored,
                   lateShutdown, convVars, encVars, tracerVars>>

\* ExecuteCommand, lines 422-423, met by the engine's `cmd.res <- res`; the
\* engine then runs on to its next blocking point.
ReceiveResult(wok) ==
    /\ pc = "sendRes"
    /\ caller[cur] = "waiting"
    /\ caller' = [caller EXCEPT ![cur] = "returned"]
    /\ outcome' = [outcome EXCEPT ![cur] = curRes]
    /\ Install(AfterSend(EngineState, wok))
    /\ UNCHANGED <<version, connClosed, eventChClosed, cmdChClosed, disconnectedChClosed,
                   hasEventCh, failIdx, reader, nread, ctxDone, starter,
                   lateShutdown, convVars, encVars, tracerVars>>

\* ------------------------------------------------------------ mainLoop
\* The greeting taken without writing the queued head.
ReceiveGreeting_NoWrite(l, wok) ==
    /\ pc = "handshake"
    /\ reader = "offer"
    /\ version' = parseVersion(l)
    /\ reader' = "scan"
    /\ Install(ReturnTo(EngineState, "connect"))
    /\ UNCHANGED <<connClosed, eventChClosed, cmdChClosed, disconnectedChClosed,
                   hasEventCh, failIdx, nread, caller, outcome, ctxDone, starter,
                   lateShutdown, convVars, encVars, tracerVars>>

\* Lines 356-363: the first line is taken as the greeting; a queued command
\* is written.
ReceiveGreeting(l, wok) ==
    /\ pc = "handshake"
    /\ reader = "offer"
    /\ version' = parseVersion(l)
    /\ reader' = "scan"
    /\ Install(IF Len(cmdQueue) >= 1
               THEN writeNextQMPCommand(EngineState, wok, "connect")
               ELSE ReturnTo(EngineState, "connect"))
    /\ UNCHANGED <<connClosed, eventChClosed, cmdChClosed, disconnectedChClosed,
                   hasEventCh, failIdx, nread, caller, outcome, ctxDone, starter,
                   lateShutdown, convVars, encVars, tracerVars>>

\* Line 367, met by the receive of QMPStart's select (lines 481-484).
Connect ==
    /\ pc = "connect"
    /\ starter = "waiting"
    /\ starter' = IF version = "nil" THEN "failed" ELSE "ok"
    /\ pc' = "run"
    /\ UNCHANGED <<after, ret, cur, curRes, cmdQueue, filter, resultReceived,
                   marshalOK, version, wire, connClosed, eventChClosed, cmdChClosed,
                   disconnectedChClosed, hasEventCh, failIdx, reader, nread,
                   caller, outcome, ctxDone, attempts, fin, matched, nReplies, faults,
                   ev, decodeErr, nEarly, ignored,
                   lateShutdown, convVars, encVars, tracerVars>>

\* Lines 379-383.
ReceiveLine(l, wok) ==
    /\ pc = "run"
    /\ reader = "offer"
    /\ reader' = "scan"
    /\ Install(processQMPInput(EngineState, l, wok))
    /\ UNCHANGED <<version, connClosed, eventChClosed, cmdChClosed, disconnectedChClosed,
                   hasEventCh, failIdx, nread, caller, outcome, ctxDone, starter,
                   lateShutdown, convVars, encVars, tracerVars>>

\* processQMPEvent, line 202, met by the subscriber's receive.
DeliverEvent ==
    /\ pc = "sendEvent"
    /\ pc' = "run"
    /\ ev' = NoEvent
    /\ UNCHANGED <<after, ret, cur, curRes, cmdQueue, filter, resultReceived,
                   marshalOK, version, wire, connClosed, eventChClosed, cmdChClosed,
                   disconnectedChClosed, hasEventCh, failIdx, reader, nread,
                   caller, outcome, ctxDone, starter, attempts, fin, matched, nReplies,
                   faults, decodeErr, nEarly, ignored,
                   lateShutdown, convVars, encVars, tracerVars>>

\* The deferred function closing disconnectedCh first.
ExitLoop_ClosesDisconnected ==
    /\ pc \in {"handshake", "run"}
    /\ cmdChClosed \/ reader = "closed"
    /\ pc' = "drain"
    /\ eventChClosed' = hasEventCh
    /\ connClosed' = TRUE
    /\ disconnectedChClosed' = TRUE
    /\ decodeErr' = FALSE
    /\ ignored' = "none"
    /\ UNCHANGED <<after, ret, cur, curRes, cmdQueue, filter, resultReceived,
                   marshalOK, version, wire, cmdChClosed,
                   hasEventCh, failIdx, reader, nread, caller, outcome, ctxDone,
                   starter, attempts, fin, matched, nReplies, faults,
                   ev, nEarly,
                   lateShutdown, convVars, encVars, tracerVars>>

\* Lines 352-353, 357-358, 372-373, 380-381 and the deferred function up to
\* its `<-fromVMCh` (lines 335-340): a select finds q.cmdCh or fromVMCh
\* closed, the event channel and the connection are closed.
ExitLoop ==
    /\ pc \in {"handshake", "run"}
    /\ cmdChClosed \/ reader = "closed"
    /\ pc' = "drain"
    /\ eventChClosed' = hasEventCh
    /\ connClosed' = TRUE
    /\ decodeErr' = FALSE
    /\ ignored' = "none"
    /\ UNCHANGED <<after, ret, cur, curRes, cmdQueue, filter, resultReceived,
                   marshalOK, version, wire, cmdChClosed, disconnectedChClosed,
                   hasEventCh, failIdx, reader, nread, caller, outcome, ctxDone,
                   starter, attempts, fin, matched, nReplies, faults,
                   ev, nEarly,
                   lateShutdown, convVars, encVars, tracerVars>>

\* Line 340: one receive from fromVMCh, a line or the closure.
Drain ==
    /\ pc = "drain"
    /\ reader \in {"offer", "closed"}
    /\ reader' = IF reader = "offer" THEN "scan" ELSE "closed"
    /\ pc' = "failOutstanding"
    /\ failIdx' = 1
    /\ UNCHANGED <<after, ret, cur, curRes, cmdQueue, filter, resultReceived,
                   marshalOK, version, wire, connClosed, eventChClosed, cmdChClosed,
                   disconnectedChClosed, hasEventCh, nread, caller, outcome, ctxDone,
                   starter, attempts, fin, matched, nReplies, faults,
                   ev, decodeErr, nEarly, ignored,
                   lateShutdown, convVars, encVars, tracerVars>>

\* failOutstandingCommands, lines 288-290: the send case of the select, met
\* by the caller's receive.
FailDeliver ==
    /\ pc = "failOutstanding"
    /\ failIdx <= Len(cmdQueue)
    /\ LET c == cmdQueue[failIdx]
       IN  /\ caller[c] = "waiting"
           /\ caller' = [caller EXCEPT ![c] = "returned"]
           /\ outcome' = [outcome EXCEPT ![c] = "exiting"]
           /\ attempts' = [attempts EXCEPT ![c] = @ + 1]
    /\ failIdx' = failIdx + 1
    /\ UNCHANGED <<pc, after, ret, cur, curRes, cmdQueue, filter, resultReceived,
                   marshalOK, version, wire, connClosed, eventChClosed, cmdChClosed,
                   disconnectedChClosed, hasEventCh, reader, nread, ctxDone,
                   starter, fin, matched, nReplies, faults,
                   ev, decodeErr, nEarly, ignored,
                   lateShutdown, convVars, encVars, tracerVars>>

\* failOutstandingCommands passing over a command whose context is not done.
FailSkip_Always ==
    /\ pc = "failOutstanding"
    /\ failIdx <= Len(cmdQueue)
    /\ failIdx' = failIdx + 1
    /\ UNCHANGED <<pc, after, ret, cur, curRes, cmdQueue, filter, resultReceived,
                   marshalOK, version, wire, connClosed, eventChClosed, cmdChClosed,
                   disconnectedChClosed, hasEventCh, reader, nread, caller,
                   outcome, ctxDone, starter, attempts, fin, matched, nReplies, faults,
                   ev, decodeErr, nEarly, ignored,
                   lateShutdown, convVars, encVars, tracerVars>>

\* failOutstandingCommands, line 291: the command's context is done.
FailSkip ==
    /\ pc = "failOutstanding"
    /\ failIdx <= Len(cmdQueue)
    /\ ctxDone[cmdQueue[failIdx]]
    /\ failIdx' = failIdx + 1
    /\ UNCHANGED <<pc, after, ret, cur, curRes, cmdQueue, filter, resultReceived,
                   marshalOK, version, wire, connClosed, eventChClosed, cmdChClosed,
                   disconnectedChClosed, hasEventCh, reader, nread, caller,
                   outcome, ctxDone, starter, attempts, fin, matched, nReplies, faults,
                   ev, decodeErr, nEarly, ignored,
                   lateShutdown, convVars, encVars, tracerVars>>

\* The teardown leaving failOutstandingCommands after its first entry.
CloseDisconnected_Early ==
    /\ pc = "failOutstanding"
    /\ failIdx > 1
    /\ pc' = "done"
    /\ disconnectedChClosed' = TRUE
    /\ UNCHANGED <<after, ret, cur, curRes, cmdQueue, filter, resultReceived,
                   marshalOK, version, wire, connClosed, eventChClosed, cmdChClosed,
                   hasEventCh, failIdx, reader, nread, caller, outcome, ctxDone,
                   starter, attempts, fin, matched, nReplies, faults,
                   ev, decodeErr, nEarly, ignored,
                   lateShutdown, convVars, encVars, tracerVars>>

\* Line 342, once failOutstandingCommands has returned.
CloseDisconnected ==
    /\ pc = "failOutstanding"
    /\ failIdx > Len(cmdQueue)
    /\ pc' = "done"
    /\ disconnectedChClosed' = TRUE
    /\ UNCHANGED <<after, ret, cur, curRes, cmdQueue, filter, resultReceived,
                   marshalOK, version, wire, connClosed, eventChClosed, cmdChClosed,
                   hasEventCh, failIdx, reader, nread, caller, outcome, ctxDone,
                   starter, attempts, fin, matched, nReplies, faults,
                   ev, decodeErr, nEarly, ignored,
                   lateShutdown, convVars, encVars, tracerVars>>

\* ------------------------------------------------- Shutdown, QMPStart
\* Shutdown closing the event channel as well.
Shutdown_ClosesEvents ==
    /\ ~cmdChClosed
    /\ starter # "waiting"
    /\ cmdChClosed' = TRUE
    /\ eventChClosed' = TRUE
    /\ lateShutdown' = disconnectedChClosed
    /\ UNCHANGED <<pc, after, ret, cur, curRes, cmdQueue, filter, resultReceived,
                   marshalOK, version, wire, connClosed,
                   disconnectedChClosed, hasEventCh, failIdx, reader, nread,
                   caller, outcome, ctxDone, starter, attempts, fin, matched, nReplies,
                   faults,
                   ev, decodeErr, nEarly, ignored, convVars, encVars, tracerVars>>

\* Shutdown, line 503; called once per session.
Shutdown ==
    /\ ~cmdChClosed
    /\ starter # "waiting"
    /\ cmdChClosed' = TRUE
    /\ lateShutdown' = disconnectedChClosed
    /\ UNCHANGED <<pc, after, ret, cur, curRes, cmdQueue, filter, resultReceived,
                   marshalOK, version, wire, connClosed, eventChClosed,
                   disconnectedChClosed, hasEventCh, failIdx, reader, nread,
                   caller, outcome, ctxDone, starter, attempts, fin, matched, nReplies,
                   faults,
                   ev, decodeErr, nEarly, ignored, convVars, encVars, tracerVars>>

\* QMPStart, lines 475-476: the starting context is done, Shutdown is called.
StartCancel ==
    /\ starter = "waiting"
    /\ ~cmdChClosed
    /\ starter' = "cancelling"
    /\ cmdChClosed' = TRUE
    /\ UNCHANGED <<pc, after, ret, cur, curRes, cmdQueue, filter, resultReceived,
                   marshalOK, version, wire, connClosed, eventChClosed,
                   disconnectedChClosed, hasEventCh, failIdx, reader, nread,
                   caller, outcome, ctxDone, attempts, fin, matched, nReplies, faults,
                   ev, decodeErr, nEarly, ignored,
                   lateShutdown, convVars, encVars, tracerVars>>

\* QMPStart, lines 477-480: disconnectedCh is closed.
StartDisconnected ==
    /\ starter \in {"waiting", "cancelling"}
    /\ disconnectedChClosed
    /\ starter' = IF starter = "waiting" THEN "lost" ELSE "cancelled"
    /\ UNCHANGED <<pc, after, ret, cur, curRes, cmdQueue, filter, resultReceived,
                   marshalOK, version, wire, connClosed, eventChClosed, cmdChClosed,
                   disconnectedChClosed, hasEventCh, failIdx, reader, nread,
                   caller, outcome, ctxDone, attempts, fin, matched, nReplies, faults,
                   ev, decodeErr, nEarly, ignored,
                   lateShutdown, convVars, encVars, tracerVars>>

Next ==
    \/ ReadLine
    \/ ReadEOF
    \/ \E c \in Cmds, f \in Filters, m \in BOOLEAN : SubmitHandshake(c, f, m)
    \/ \E c \in Cmds, f \in Filters, m \in BOOLEAN, wok \in BOOLEAN : SubmitRun(c, f, m, wok)
    \/ \E c \in Cmds : SubmitRefused(c)
    \/ \E c \in Cmds : SubmitPanic(c)
    \/ \E c \in Cmds : Cancel(c)
    \/ \E c \in Cmds : ReturnCancelled(c)
    \/ \E wok \in BOOLEAN : ReceiveResult(wok)
    \/ \E l \in Lines, wok \in BOOLEAN : ReceiveGreeting(l, wok)
    \/ Connect
    \/ \E l \in Lines, wok \in BOOLEAN : ReceiveLine(l, wok)
    \/ DeliverEvent
    \/ ExitLoop
    \/ Drain
    \/ FailDeliver
    \/ FailSkip
    \/ CloseDisconnected
    \/ Shutdown
    \/ StartCancel
    \/ StartDisconnected

Spec == Init /\ [][Next]_vars

\* ------------------------------------------------------ the conversions
\* processQMPEvent, lines 188-200, on its own: the timestamp of a message is
\* any of Timestamps, and ev.Timestamp is built from it when a subscriber
\* is registered.
TimestampInit ==
    /\ SessionInit
    /\ timestamp \in Timestamps
    /\ evTimestamp = ZeroTime
    /\ greeting = NoGreeting(FALSE)
    /\ qmpVersion = NilVersion
    /\ EncodingUnused
    /\ TracerCreated

BuildTimestamp ==
    /\ hasEventCh
    /\ evTimestamp' = EventTimestamp(timestamp)
    /\ UNCHANGED <<pc, after, ret, cur, curRes, cmdQueue, filter, resultReceived,
                   marshalOK, version, wire, connClosed, eventChClosed, cmdChClosed,
                   disconnectedChClosed, hasEventCh, failIdx, reader, nread, caller,
                   outcome, ctxDone, starter, attempts, fin, matched, nReplies, faults,
                   ev, decodeErr, nEarly, ignored, lateShutdown,
                   timestamp, greeting, qmpVersion, encVars, tracerVars>>

TimestampNext == BuildTimestamp

TimestampSpec == TimestampInit /\ [][TimestampNext]_vars

\* parseVersion, lines 296-328, on its own: the first line decodes to any
\* of Greetings.
GreetingInit ==
    /\ SessionInit
    /\ timestamp = NoTimestamp
    /\ evTimestamp = ZeroTime
    /\ greeting \in Greetings
    /\ qmpVersion = NilVersion
    /\ EncodingUnused
    /\ TracerCreated

ParseGreeting ==
    /\ qmpVersion' = parseVersionOf(greeting)
    /\ UNCHANGED <<pc, after, ret, cur, curRes, cmdQueue, filter, resultReceived,
                   marshalOK, version, wire, connClosed, eventChClosed, cmdChClosed,
                   disconnectedChClosed, hasEventCh, failIdx, reader, nread, caller,
                   outcome, ctxDone, starter, attempts, fin, matched, nReplies, faults,
                   ev, decodeErr, nEarly, ignored, lateShutdown,
                   timestamp, evTimestamp, greeting, encVars, tracerVars>>

GreetingNext == ParseGreeting

GreetingSpec == GreetingInit /\ [][GreetingNext]_vars

\* writeNextQMPCommand, lines 257-275, on its own: the command is any of
\* Commands, and the line handed to q.conn.Write is built from it.
EncodingInit ==
    /\ SessionInit
    /\ ConversionsUnused
    /\ encoder \in [cmd : Commands, written : {NothingWritten}]
    /\ TracerCreated

EncodeAndWrite ==
    /\ encoder' = [encoder EXCEPT !.written = EncodedLine(encCmd)]
    /\ UNCHANGED <<sessionVars, convVars, tracerVars>>

EncodingNext == EncodeAndWrite

EncodingSpec == EncodingInit /\ [][EncodingNext]_vars

\* ---------------------------------------------- Tracer (src/unnamed/part_000)
\* NewTracer, dialAndListen and spanListener, and the Trace and Stop calls of
\* whoever NewTracer returned the tracer to.  t.status is a mutex: a Lock
\* waits until it is free.  t.statusChannel is unbuffered, the send and its
\* receive are one step; t.spanChannel is buffered.  A call that takes the
\* mutex and gives it back without blocking in between is one step.

\* Stop always closing t.stopChannel.
StopLocked_NoCheck(st, closes) ==
    [status |-> "stopped", closes |-> closes + 1]

\* Stop, lines 285-290, with the mutex held: the status and the number of
\* closes of t.stopChannel it leaves.
StopLocked(st, closes) ==
    IF st # "running"
    THEN [status |-> st, closes |-> closes]
    ELSE [status |-> "stopped", closes |-> closes + 1]

\* Trace sending its span whatever the status.
TraceAccepts_Always(st) == TRUE

\* Trace, line 268, with the mutex held: whether the span is to be sent.
TraceAccepts(st) == st = "running"

\* dialAndListen, lines 207-211: t.ssntp.Dial fails, spanListener is never
\* started.
DialFails ==
    /\ listener = "dial"
    /\ tracer' = [tracer EXCEPT !.listener = "dialFailed"]
    /\ UNCHANGED <<sessionVars, convVars, encVars>>

\* dialAndListen, line 213: go t.spanListener().
DialSucceeds ==
    /\ listener = "dial"
    /\ tracer' = [tracer EXCEPT !.listener = "start"]
    /\ UNCHANGED <<sessionVars, convVars, encVars>>

\* spanListener, lines 219-221: the mutex is taken, the status set, and the
\* listener blocks on the send on t.statusChannel, holding the mutex.
ListenerLock ==
    /\ listener = "start"
    /\ statusLock = Free
    /\ tracer' = [tracer EXCEPT !.statusLock = SpanListener,
                                !.status = "running",
                                !.listener = "announce"]
    /\ UNCHANGED <<sessionVars, convVars, encVars>>

\* The send of line 221 met by the receive of NewTracer's select (lines
\* 163-168); the listener unlocks (line 222) and enters its loop.
Announce ==
    /\ listener = "announce"
    /\ newTracer = "select"
    /\ tracer' = [tracer EXCEPT
                    !.newTracer = IF status = "running" THEN "running" ELSE "couldNotStart",
                    !.statusLock = Free,
                    !.listener = "listen"]
    /\ UNCHANGED <<sessionVars, convVars, encVars>>

\* NewTracer, lines 170-171: the two seconds have passed; Stop is called and
\* waits for the mutex.
Timeout ==
    /\ newTracer = "select"
    /\ tracer' = [tracer EXCEPT !.newTracer = "stop"]
    /\ UNCHANGED <<sessionVars, convVars, encVars>>

\* NewTracer, lines 171-172: its Stop gets the mutex, runs, and NewTracer
\* returns the error.
StopAfterTimeout ==
    /\ newTracer = "stop"
    /\ statusLock = Free
    /\ tracer' = [tracer EXCEPT
                    !.status = StopLocked(status, stopChannelCloses).status,
                    !.stopChannelCloses = StopLocked(status, stopChannelCloses).closes,
                    !.newTracer = "timedOut"]
    /\ UNCHANGED <<sessionVars, convVars, encVars>>

\* spanListener, lines 226-228: a span is taken from t.spanChannel.
ListenerSpan ==
    /\ listener = "listen"
    /\ Len(spanChannel) > 0
    /\ tracer' = [tracer EXCEPT !.spanChannel = Tail(spanChannel)]
    /\ UNCHANGED <<sessionVars, convVars, encVars>>

\* spanListener, lines 229-230: t.stopChannel is closed, the listener returns.
ListenerStop ==
    /\ listener = "listen"
    /\ stopChannelCloses > 0
    /\ tracer' = [tracer EXCEPT !.listener = "exited"]
    /\ UNCHANGED <<sessionVars, convVars, encVars>>

\* Trace is called (lines 241-267) and waits for the mutex.
CallTrace(i) ==
    /\ newTracer = "running"
    /\ tracePc[i] = "idle"
    /\ tracer' = [tracer EXCEPT
                    !.tracePc[i] = "lock",
                    !.afterStop[i] = closedBy # 0 /\ stopPc[closedBy] = "returned"]
    /\ UNCHANGED <<sessionVars, convVars, encVars>>

\* Trace, lines 267-274: with the mutex, the status is looked at; the call
\* returns the error, or sends its span and returns, or blocks on the send
\* to the full t.spanChannel, holding the mutex.
Trace(i) ==
    /\ tracePc[i] = "lock"
    /\ statusLock = Free
    /\ tracer' = IF ~TraceAccepts(status)
                 THEN [tracer EXCEPT !.tracePc[i] = "notRunning"]
                 ELSE IF Len(spanChannel) < MaxSpans
                 THEN [tracer EXCEPT !.tracePc[i] = "traced",
                                     !.spanChannel = Append(spanChannel, i)]
                 ELSE [tracer EXCEPT !.tracePc[i] = "send",
                                     !.statusLock = TraceCall(i)]
    /\ UNCHANGED <<sessionVars, convVars, encVars>>

\* Trace, line 272, once t.spanChannel has room; the deferred Unlock.
TraceSend(i) ==
    /\ tracePc[i] = "send"
    /\ Len(spanChannel) < MaxSpans
    /\ tracer' = [tracer EXCEPT !.spanChannel = Append(spanChannel, i),
                                !.statusLock = Free,
                                !.tracePc[i] = "traced"]
    /\ UNCHANGED <<sessionVars, convVars, encVars>>

\* Stop is called and waits for the mutex (line 283).
CallStop(j) ==
    /\ newTracer = "running"
    /\ stopPc[j] = "idle"
    /\ tracer' = [tracer EXCEPT !.stopPc[j] = "lock"]
    /\ UNCHANGED <<sessionVars, convVars, encVars>>

\* Stop, lines 283-291, with the mutex.
Stop(j) ==
    /\ stopPc[j] = "lock"
    /\ statusLock = Free
    /\ tracer' = [tracer EXCEPT
                    !.status = StopLocked(status, stopChannelCloses).status,
                    !.stopChannelCloses = StopLocked(status, stopChannelCloses).closes,
                    !.closedBy = IF StopLocked(status, stopChannelCloses).closes
                                       > stopChannelCloses
                                 THEN j ELSE closedBy,
                    !.stopPc[j] = "returned"]
    /\ UNCHANGED <<sessionVars, convVars, encVars>>

TracerInit ==
    /\ SessionInit
    /\ ConversionsUnused
    /\ EncodingUnused
    /\ TracerCreated

TracerNext ==
    \/ DialFails
    \/ DialSucceeds
    \/ ListenerLock
    \/ Announce
    \/ Timeout
    \/ StopAfterTimeout
    \/ ListenerSpan
    \/ ListenerStop
    \/ \E i \in Traces : CallTrace(i)
    \/ \E i \in Traces : Trace(i)
    \/ \E i \in Traces : TraceSend(i)
    \/ \E j \in Stops : CallStop(j)
    \/ \E j \in Stops : Stop(j)

TracerSpec == TracerInit /\ [][TracerNext]_vars

\* =============================================================== claims
InQueue(c) == \E i \in 1..Len(cmdQueue) : cmdQueue[i] = c
\* The engine takes a line in its Running select.
LineStep == pc = "run" /\ reader = "offer" /\ reader' = "scan"
\* The line taken is a reply (it carries return or error, no event) and the
\* queue is not empty.
ReplyStep == LineStep /\ nReplies' = nReplies + 1
\* No command submitted so far carried an event filter.
NoFilters == \A c \in Cmds : filter[c] = NoFilter /\ ~matched[c]
\* The result the engine hands to command c in this step, unless its
\* context was found done.
Hands(c, res) ==
    IF ctxDone[c]
    THEN attempts'[c] = attempts[c]
    ELSE pc' = "sendRes" /\ cur' = c /\ curRes' = res /\ attempts'[c] = attempts[c] + 1

\* C1: every command is written to the transport at most once; a submission
\* accepted while a written head awaits its reply writes nothing.
C1_WrittenAtMostOnce == \A c \in Cmds : Writes(wire, c) <= 1

\* C2: every queue entry other than the head has never been written to the
\* transport.
C2_OnlyHeadWritten ==
    \A i \in 2..Len(cmdQueue) :
        \A k \in 1..Len(wire) : wire[k].cmd # cmdQueue[i]

\* C2 witness: two commands are queued and the head has been written.
C2_Witness == Len(cmdQueue) >= 2 /\ Writes(wire, Head(cmdQueue)) >= 1

AwaitingEvent(c) ==
    /\ Len(cmdQueue) > 0 /\ Head(cmdQueue) = c
    /\ filter[c] # NoFilter /\ resultReceived[c]

C5_EventBeforeReply ==
    [][ \A c \in Cmds :
          /\ (matched'[c] /\ ~matched[c] /\ ~resultReceived[c]) =>
                /\ Head(cmdQueue) = c
                /\ cmdQueue' = cmdQueue
                /\ filter[c] # NoFilter /\ filter'[c] = NoFilter
                /\ resultReceived'[c] = FALSE
                /\ fin'[c] = "none"
                /\ attempts' = attempts
                /\ outcome' = outcome
          /\ (ReplyStep /\ Head(cmdQueue) = c /\ matched[c] /\ ~resultReceived[c]) =>
                /\ ~InQueue(c)'
                /\ fin'[c] \in {"replyReturn", "replyError", "replyBoth"}
                /\ (fin'[c] = "replyReturn" => Hands(c, "ok"))
                /\ (fin'[c] = "replyError" => Hands(c, "failed"))
      ]_vars

\* C5 witness: command 1's event came before its reply, and the reply, an
\* error, resolved it with failure.
C5_Witness ==
    /\ matched[1] /\ ~resultReceived[1]
    /\ fin[1] = "replyError" /\ outcome[1] = "failed"

\* C6: no step changes the filter, the resultReceived flag or the relative
\* position of a command that is not at the head, nor finalises it; a
\* command that had a filter is finalised with success only after a
\* matching event was processed while it was the head.
C6_HeadOnlyCorrelation ==
    [][ /\ \A i \in 2..Len(cmdQueue) :
              LET c == cmdQueue[i]
              IN  /\ filter'[c] = filter[c]
                  /\ resultReceived'[c] = resultReceived[c]
                  /\ matched'[c] = matched[c]
                  /\ fin'[c] = "none"
                  /\ \E j \in {i - 1, i} : j <= Len(cmdQueue') /\ cmdQueue'[j] = c
        /\ \A c \in Cmds :
              (fin'[c] \in {"replyReturn", "event"} /\ filter'[c] # NoFilter) => matched'[c]
      ]_vars

\* C6 witness: a SHUTDOWN event has just finalised head command 1, while
\* the queued command 2, whose filter the same event matches, is unchanged.
C6_Witness ==
    /\ pc = "sendRes" /\ cur = 1 /\ after = "afterFinalise" /\ ret = "event"
    /\ fin[1] = "event" /\ filter[1] = PowerdownFilter
    /\ cmdQueue = <<2>> /\ filter[2] = PowerdownFilter
    /\ ~matched[2] /\ ~resultReceived[2]

\* C7: when the teardown has run, every command still queued has been handed
\* the failure result or has a cancelled context, and failOutstandingCommands
\* never waits on a command that is neither receiving nor cancelled; from
\* the moment the loop observes the closure nothing is written to the
\* transport.
C7_TeardownFailsAll ==
    [][ /\ (pc' = "done") =>
              \A i \in 1..Len(cmdQueue') :
                  outcome'[cmdQueue'[i]] = "exiting" \/ ctxDone'[cmdQueue'[i]]
        /\ (pc' = "failOutstanding") =>
              /\ \A i \in 1..Len(cmdQueue') :
                    i < failIdx' =>
                        outcome'[cmdQueue'[i]] = "exiting" \/ ctxDone'[cmdQueue'[i]]
              /\ \A i \in 1..Len(cmdQueue') :
                    i >= failIdx' =>
                        caller'[cmdQueue'[i]] = "waiting" \/ ctxDone'[cmdQueue'[i]]
        /\ (pc' \in {"drain", "failOutstanding", "done"}) => wire' = wire
        /\ (pc \in {"drain", "failOutstanding", "done"}) =>
              pc' \in {"drain", "failOutstanding", "done"}
      ]_vars

\* C7 witness: the reader's output closed (no Shutdown) with two commands
\* queued, and both were handed the failure result.
C7_Witness ==
    /\ pc = "done" /\ ~cmdChClosed /\ reader = "closed"
    /\ Len(cmdQueue) = 2
    /\ outcome[cmdQueue[1]] = "exiting" /\ outcome[cmdQueue[2]] = "exiting"

\* C8: after Shutdown on a running session the engine always comes to its
\* teardown and fails the queued commands: it is never left, with a command
\* still queued and its caller waiting, blocked for good in finaliseCommand
\* on the send of a result that no caller will ever receive.  A caller that
\* has returned never receives again, so a state violating this is one the
\* engine never leaves.
C8_ShutdownReachesTeardown ==
    (/\ starter = "ok" /\ cmdChClosed
     /\ pc = "sendRes" /\ after = "afterFinalise"
     /\ \E d \in Cmds : InQueue(d) /\ caller[d] = "waiting") =>
        caller[cur] = "waiting"

\* C9: the engine starts at most one send on a command's result channel.
C9_AtMostOneSend == \A c \in Cmds : attempts[c] <= 1

\* C10: whenever the engine delivers a command's result (after a reply or
\* a matching event, or after a failed write), the command's caller is
\* there to receive it or the send is skipped: the engine is never blocked
\* on the result channel of a command whose caller has given up.
C10_DeliveryNeverStalls ==
    (pc = "sendRes" /\ after \in {"afterFinalise", "afterWriteFail"} /\ attempts[cur] = 1) =>
        caller[cur] = "waiting"

\* Position of command c in the queue, 0 when it is not queued.
Pos(q, c) == IF \E i \in 1..Len(q) : q[i] = c
             THEN CHOOSE i \in 1..Len(q) : q[i] = c
             ELSE 0

\* C11: the firing of a queued command's cancellation signal and the return
\* of its ExecuteCommand with the cancellation's error change nothing of the
\* queue, the flags, the transport and the engine; the abandoned command
\* keeps its place, no command queued behind it is written while it is
\* queued; when a reply or an event resolves it no result is sent and the
\* next command is written, and the teardown skips it.
C11_CancelOnlyUnblocks ==
    [][ \A c \in Cmds :
          /\ (InQueue(c) /\ (ctxDone'[c] # ctxDone[c]
                              \/ (outcome[c] = "none" /\ outcome'[c] = "cancelled"))) =>
                /\ UNCHANGED <<cmdQueue, filter, resultReceived, wire, fin, attempts,
                               pc, after, ret, cur, curRes, failIdx, connClosed,
                               disconnectedChClosed>>
                /\ (outcome'[c] = "cancelled" => caller'[c] = "returned" /\ ctxDone[c])
          /\ (InQueue(c) /\ outcome[c] = "cancelled") =>
                /\ outcome'[c] = "cancelled"
                /\ InQueue(c)' =>
                      /\ Pos(cmdQueue', c) \in {Pos(cmdQueue, c), Pos(cmdQueue, c) - 1}
                      /\ \A k \in (Len(wire) + 1)..Len(wire') :
                             Pos(cmdQueue, wire'[k].cmd) <= Pos(cmdQueue, c)
                /\ (~InQueue(c)' /\ fin'[c] \in {"replyReturn", "replyError", "replyBoth", "event"}) =>
                      /\ cmdQueue' = Tail(cmdQueue)
                      /\ attempts'[c] = attempts[c]
                      /\ pc' # "sendRes" \/ cur' # c
                      /\ (Len(cmdQueue) >= 2 /\ marshalOK[cmdQueue[2]]) =>
                            wire' = Append(wire, [cmd |-> cmdQueue[2], blank |-> FALSE])
                /\ (pc = "failOutstanding" /\ failIdx = Pos(cmdQueue, c) /\ failIdx' # failIdx) =>
                      /\ failIdx' = failIdx + 1
                      /\ attempts' = attempts /\ outcome' = outcome /\ cmdQueue' = cmdQueue
      ]_vars

\* C11 witness: command 1 was cancelled while queued and its caller got the
\* cancellation's error; the reply that came later resolved it without any
\* send, command 2 was written next and got its own result.
C11_Witness ==
    /\ outcome[1] = "cancelled" /\ fin[1] = "replyReturn" /\ attempts[1] = 0
    /\ Writes(wire, 2) >= 1 /\ outcome[2] = "ok"

\* C12: on a session that QMPStart handed out and that has ended
\* (disconnectedCh is closed), a call of ExecuteCommand returns the error
\* at once: it does not fault, the command is not queued and nothing is
\* written.
C12_RefusedAfterEnd ==
    [][ \A c \in Cmds :
          (starter = "ok" /\ disconnectedChClosed /\ caller[c] = "idle" /\ caller'[c] # "idle") =>
              /\ caller'[c] = "returned" /\ outcome'[c] = "exiting"
              /\ cmdQueue' = cmdQueue /\ wire' = wire
      ]_vars

\* Command c was accepted before the greeting was received.
Early(c) == c <= nEarly

\* C13: the commands accepted before the greeting are written in the order
\* of their submission, one at a time: among their writes an earlier
\* command never follows a later one, and one of them is written only when
\* every command submitted before it has been finalised and taken off the
\* queue; the greeting of a successful handshake writes the first of them,
\* and the delivery of a command's result writes the next.
C13_EarlyWrittenInOrder ==
    /\ \A i, j \in 1..Len(wire) :
          (i < j /\ ~wire[i].blank /\ ~wire[j].blank /\ Early(wire[i].cmd) /\ Early(wire[j].cmd)) =>
              wire[i].cmd <= wire[j].cmd
    /\ \A c \in Cmds :
          (Early(c) /\ Writes(wire, c) >= 1) =>
              /\ version # "none"
              /\ \A d \in Cmds : d < c => (~InQueue(d) /\ fin[d] # "none")
    /\ (version = "version" /\ pc = "connect" /\ nEarly >= 1 /\ marshalOK[1]) =>
          wire = <<[cmd |-> 1, blank |-> FALSE]>>
    /\ \A c \in Cmds :
          (/\ Early(c) /\ c > 1 /\ marshalOK[c] /\ version = "version"
           /\ fin[c - 1] \in {"replyReturn", "replyError", "event"}
           /\ pc \in {"run", "sendEvent"}
           /\ \A d \in Cmds : d < c => fin[d] \in {"replyReturn", "replyError", "event"}) =>
              Writes(wire, c) >= 1

\* C13 witness: two commands were accepted before the greeting; after a
\* successful handshake command 1 was written, resolved by its reply, and
\* command 2 was written after it.
C13_Witness ==
    /\ nEarly = 2 /\ version = "version" /\ starter = "ok"
    /\ wire = <<[cmd |-> 1, blank |-> FALSE], [cmd |-> 2, blank |-> FALSE]>>
    /\ fin[1] = "replyReturn" /\ outcome[1] = "ok"

\* C14: before the engine has received the first inbound message nothing
\* has been written to the transport: submissions are only appended to the
\* queue, unfinalised and with no result sent.
C14_NothingWrittenBeforeGreeting ==
    (version = "none") =>
        /\ wire = <<>>
        /\ Len(cmdQueue) = nEarly
        /\ \A i \in 1..Len(cmdQueue) : cmdQueue[i] = i /\ fin[i] = "none"
        /\ (pc = "handshake" => \A c \in Cmds : attempts[c] = 0)

\* C14 witness: two commands were submitted and queued, the greeting has
\* not been received yet, and nothing was written.
C14_Witness ==
    pc = "handshake" /\ version = "none" /\ cmdQueue = <<1, 2>> /\ wire = <<>>

\* The engine holds an event for the subscriber: it stands at the send on
\* q.cfg.EventCh, or at the delivery of the result of the command that the
\* event finalised, which comes first.
Pending == ev # NoEvent /\ (pc = "sendEvent" \/ (pc = "sendRes" /\ ret = "event"))
StringEvents == {l \in Lines : IsEvent(l) /\ l.event # NotAString}

\* C15 as stated: with a subscriber registered, every line carrying an
\* `event` key that the engine takes in the Running phase leaves the engine
\* with that event to deliver.
C15_EveryEventDelivered ==
    [][ (hasEventCh /\ \E l \in {x \in Lines : IsEvent(x)}, wok \in BOOLEAN : ReceiveLine(l, wok))
            => Pending'
      ]_vars

\* C15 amended: with a subscriber registered, every line whose `event` value
\* is a string leaves the engine with exactly that event to deliver, whether
\* or not it matched or finalised the head; the engine keeps it, taking no
\* other line and no submission, until the subscriber receives it, once; an
\* event is only ever delivered for such a line.
C15_StringEventsDelivered ==
    [][ /\ \A l \in StringEvents :
              (hasEventCh /\ \E wok \in BOOLEAN : ReceiveLine(l, wok)) =>
                  (Pending' /\ ev' = QMPEvent(l))
        /\ Pending =>
              \/ /\ Pending' /\ ev' = ev
                 /\ Len(cmdQueue') <= Len(cmdQueue)
                 /\ ~(reader = "offer" /\ reader' = "scan")
              \/ /\ pc = "sendEvent" /\ pc' = "run" /\ ev' = NoEvent
                 /\ UNCHANGED <<cmdQueue, wire, fin, attempts, filter, resultReceived>>
        /\ (~Pending /\ Pending') => (hasEventCh /\ LineStep)
        /\ (pc' = "sendEvent" \/ ev' # NoEvent) => Pending'
      ]_vars

\* C15 witness: a SHUTDOWN event finalised head command 1, whose caller got
\* the success, and the engine now sends that same event to the subscriber.
C15_Witness ==
    /\ hasEventCh /\ pc = "sendEvent" /\ ev = QMPEvent(ShutdownEvent)
    /\ fin[1] = "event" /\ outcome[1] = "ok"

\* C16: a line that does not decode, taken in the Running phase, is dropped:
\* the step consumes the line and changes nothing else (the queue, the
\* flags, the write log, the results, the event held for the subscriber and
\* the engine's position are as before), so everything that follows is what
\* it would have been without the line.
C16_MalformedDiscarded ==
    [][ ((LineStep /\ decodeErr') \/ (\E wok \in BOOLEAN : ReceiveLine(Garbage, wok))) =>
            /\ decodeErr' /\ reader' = "scan"
            /\ UNCHANGED <<pc, after, ret, cur, curRes, cmdQueue, filter, resultReceived,
                           marshalOK, version, wire, connClosed, eventChClosed,
                           cmdChClosed, disconnectedChClosed, hasEventCh, failIdx, nread,
                           caller, outcome, ctxDone, starter, attempts, fin, matched,
                           nReplies, faults, ev, nEarly>>
      ]_vars

\* C16 witness: a malformed line has just been dropped in the Running phase
\* while command 1, written, awaits its reply and command 2 is queued.
C16_Witness ==
    /\ decodeErr /\ pc = "run" /\ version = "version"
    /\ cmdQueue = <<1, 2>> /\ Writes(wire, 1) >= 1 /\ Writes(wire, 2) = 0
    /\ fin[1] = "none" /\ attempts[1] = 0

\* The deferred teardown of mainLoop is running or has run.
TornDown == pc \in {"drain", "failOutstanding", "done"}

\* C17: once QMPStart has been handed a nil version (the greeting did not
\* decode to a version) the engine is in its teardown: it is not in the
\* Running phase, taking lines and submissions.
C17_FailedHandshakeTearsDown ==
    (starter = "failed") => TornDown

\* C18: QMPStart is never left waiting for disconnectedCh to be closed,
\* after its context was cancelled, by an engine that is itself blocked on
\* the send of the version to QMPStart.  QMPStart receives from connectedCh
\* nowhere after the cancellation, so a state violating this is one neither
\* of the two ever leaves.
C18_StartAlwaysReturns ==
    ~(starter = "cancelling" /\ pc = "connect")

\* C19: when a write of a command to the transport has failed and the
\* engine has handed the write error to the command's caller, the engine is
\* in its teardown.
C19_WriteFailureTearsDown ==
    (\E c \in Cmds : fin[c] = "writeFail" /\ outcome[c] = "writeErr") => TornDown

Matches(f, l) ==
    /\ f.eventName = l.event
    /\ \/ f.dataKey = ""
       \/ l.hasData /\ f.dataKey = "device" /\ l.device # "nil" /\ l.device = f.dataValue

\* C21: an event taken while the head has an active filter acts on the head
\* exactly when it matches the filter by that rule: it then finalises the
\* head with success if its reply was received and clears the filter
\* otherwise; an event that does not match (another name, another or no
\* value at the key) leaves the queue, the filters, the flags, the results
\* and the write log as they are.
C21_FilterMatchingRule ==
    [][ (LineStep /\ Len(cmdQueue) > 0 /\ filter[Head(cmdQueue)] # NoFilter) =>
        \A l \in StringEvents :
          (\E wok \in BOOLEAN : ReceiveLine(l, wok)) =>
              LET c == Head(cmdQueue)
              IN  IF Matches(filter[c], l)
                  THEN /\ matched'[c]
                       /\ IF resultReceived[c]
                          THEN fin'[c] = "event" /\ cmdQueue' = Tail(cmdQueue) /\ Hands(c, "ok")
                          ELSE /\ filter'[c] = NoFilter /\ cmdQueue' = cmdQueue
                               /\ fin'[c] = "none" /\ attempts' = attempts
                  ELSE UNCHANGED <<cmdQueue, filter, resultReceived, fin, attempts,
                                   matched, wire, outcome>>
      ]_vars

\* C21 witness: command 1, a device_del of "net0" whose reply was received,
\* is still at the head with its filter after the engine processed
\* DEVICE_DELETED for "other0", which it now hands to the subscriber.
C21_Witness ==
    /\ hasEventCh /\ pc = "sendEvent" /\ ev = QMPEvent(DeviceDeletedOther0)
    /\ Len(cmdQueue) > 0 /\ Head(cmdQueue) = 1
    /\ filter[1] = DeviceDelFilter /\ resultReceived[1] /\ fin[1] = "none" /\ ~matched[1]

\* C22: an inbound object without an event key that carries neither return
\* nor error, and a reply taken while the queue is empty, leave the queue,
\* the commands' filters and flags, the write log, every result channel and
\* every caller as they were, close nothing, and the engine is back in its
\* Running select.  First conjunct: what processQMPInput makes of such a
\* line in any state in which mainLoop can take one; second conjunct: what
\* the step that takes a line leaves alone besides.
Replylike == {l \in Lines : l.json /\ "event" \notin l.keys}

\* The engine's state is what it was, but for what it notes about its input.
NoOp(s) ==
    [s EXCEPT !.decodeErr = FALSE, !.ignored = "none"]
        = [EngineState EXCEPT !.decodeErr = FALSE, !.ignored = "none"]

C22_ProtocolViolationsAreNoOps ==
    /\ [](pc = "run" =>
            \A l \in Replylike, wok \in BOOLEAN :
                (l.keys \cap {"return", "error"} = {} \/ Len(cmdQueue) = 0) =>
                    NoOp(processQMPInput(EngineState, l, wok)))
    /\ [][LineStep =>
            UNCHANGED <<caller, outcome, ctxDone, version, connClosed, eventChClosed,
                        cmdChClosed, disconnectedChClosed, starter>>]_vars

\* An object with neither key was dropped while a written command waits for
\* its reply.
C22_Witness ==
    /\ pc = "run" /\ ignored = "noResult"
    /\ cmdQueue = <<1>> /\ Writes(wire, 1) = 1 /\ fin[1] = "none" /\ caller[1] = "waiting"

\* C23: once the greeting has been taken with a command queued, the first
\* write on the transport is that of the head, command 1 (commands are
\* numbered in the order mainLoop receives them, and nothing leaves the
\* queue before the greeting).  It holds from the step that takes the
\* greeting on, hence before mainLoop sends on connectedCh and before it
\* takes another line.  As stated, for every head:
C23_HeadWrittenAtGreeting ==
    (version # "none" /\ nEarly >= 1) =>
        Len(wire) >= 1 /\ wire[1] = [cmd |-> 1, blank |-> FALSE]

\* C23, amended: the head is written if json.Marshal accepts its arguments;
\* if not, mainLoop has started to send the marshal error to its caller
\* instead, and nothing of the command is written.
C23_EncodableHeadWrittenAtGreeting ==
    (version # "none" /\ nEarly >= 1) =>
        IF marshalOK[1]
        THEN Len(wire) >= 1 /\ wire[1] = [cmd |-> 1, blank |-> FALSE]
        ELSE /\ attempts[1] >= 1
             /\ Writes(wire, 1) = 0
             /\ (outcome[1] = "none" /\ ~ctxDone[1]) => (pc = "sendRes" /\ cur = 1 /\ curRes = "marshalErr")

\* Two commands were queued, the greeting has come, the head is written and
\* mainLoop is about to send on connectedCh.
C23_Witness ==
    /\ pc = "connect" /\ starter = "waiting" /\ version = "version"
    /\ cmdQueue = <<1, 2>> /\ wire = <<[cmd |-> 1, blank |-> FALSE]>>

\* C24: when readLoop has closed fromVMCh and no greeting was taken, mainLoop
\* never sends on connectedCh (QMPStart never gets a version), it goes
\* through its teardown without ever being stuck, and at the end
\* disconnectedCh is closed, every command queued before the greeting has
\* been handed the failure result unless its context was done, and QMPStart
\* has returned an error or is able to.
C24_NoGreetingFailsStartup ==
    (version = "none" /\ reader = "closed") =>
        /\ starter \in {"waiting", "cancelling", "lost", "cancelled"}
        /\ pc \in {"handshake", "drain", "failOutstanding", "done"}
        /\ wire = <<>>
        /\ pc # "done" =>
              ENABLED (ExitLoop \/ Drain \/ FailDeliver \/ FailSkip \/ CloseDisconnected)
        /\ pc = "done" =>
              /\ disconnectedChClosed
              /\ \A c \in Cmds : InQueue(c) => (outcome[c] = "exiting" \/ ctxDone[c])
              /\ starter \in {"lost", "cancelled"} \/ ENABLED StartDisconnected

\* The stream ended before a greeting with two commands queued; both got
\* the failure result and QMPStart returned its error.
C24_Witness ==
    /\ version = "none" /\ reader = "closed" /\ ~cmdChClosed /\ pc = "done"
    /\ nEarly = 2 /\ cmdQueue = <<1, 2>>
    /\ outcome = [c \in Cmds |-> "exiting"]
    /\ starter = "lost"

C26_ReaderNeverStranded ==
    ~(pc \in {"failOutstanding", "done"} /\ reader = "offer")

\* C27: the call of Shutdown by the holder of the handle, made when
\* disconnectedCh is already closed, closes cmdCh and changes nothing else:
\* no result, no write, no other close, no caller or reader moved; and from
\* then on the engine, which has finished, does nothing either.
C27_LateShutdownInert ==
    /\ [][ (disconnectedChClosed /\ starter # "waiting" /\ ~cmdChClosed /\ cmdChClosed') =>
              UNCHANGED <<pc, after, ret, cur, curRes, cmdQueue, filter, resultReceived,
                          marshalOK, version, wire, connClosed, eventChClosed,
                          disconnectedChClosed, hasEventCh, failIdx, reader, nread,
                          caller, outcome, ctxDone, starter, attempts, fin, matched,
                          nReplies, faults, ev>> ]_vars
    /\ [][ lateShutdown =>
              UNCHANGED <<pc, cur, curRes, cmdQueue, wire, attempts, connClosed,
                          eventChClosed, disconnectedChClosed>> ]_vars
    /\ [](lateShutdown => pc = "done" /\ cmdChClosed /\ disconnectedChClosed)

\* The stream ended in the Running phase, the teardown ran to its end, and
\* then Shutdown was called.
C27_Witness ==
    /\ lateShutdown /\ cmdChClosed /\ reader = "closed"
    /\ starter = "ok" /\ version = "version" /\ pc = "done"

\* C28: whenever mainLoop stands in its Running select, after a greeting
\* that gave a version, with a non-empty queue, the head has been written to
\* the transport.
C28_NoUnsentHead ==
    (pc = "run" /\ version = "version" /\ Len(cmdQueue) > 0) =>
        Writes(wire, Head(cmdQueue)) >= 1

\* C29: the Timestamp of an event whose message gives seconds and
\* microseconds as numbers is the instant `seconds` seconds and
\* `microseconds` millionths of a second after the epoch, that is
\* seconds*10^9 + microseconds*10^3 nanoseconds (microseconds below 10^6, so
\* the nanoseconds do not carry).
C29_TimestampCombinesFields ==
    ( /\ evTimestamp.set
      /\ timestamp.seconds.kind = "number" /\ timestamp.microseconds.kind = "number" ) =>
        evTimestamp = [set |-> TRUE, sec |-> timestamp.seconds.v,
                       nsec |-> timestamp.microseconds.v * 1000]

\* C30: parseVersion returns a version only for a greeting in which QMP,
\* version and qemu are objects, major, minor and micro are numbers and
\* capabilities is a list; for any other greeting it returns nil.
WellFormed(g) ==
    /\ g.json /\ g.QMP = "map" /\ g.version = "map" /\ g.qemu = "map"
    /\ g.major.kind = "number" /\ g.minor.kind = "number" /\ g.micro.kind = "number"
    /\ g.capabilities.kind = "list"

C30_StrictGreeting ==
    ~qmpVersion.nil => WellFormed(greeting)

\* C31: what is written for a command is one line holding an object whose
\* keys are "execute", with the command's name, and, exactly when args were
\* supplied (not nil), "arguments", with the args.
C31_OutboundEncoding ==
    written.newline =>
        /\ ~written.text.empty
        /\ written.text.object.execute = encCmd.name
        /\ written.text.object.keys =
              IF encCmd.args.nil THEN {"execute"} ELSE {"execute", "arguments"}
        /\ ~encCmd.args.nil => written.text.object.arguments = encCmd.args.map

\* C32: a Trace call made after the Stop that found the tracer running has
\* returned ends with the error "Tracer is not running" and its span is never
\* put on t.spanChannel; and whenever a span is put on t.spanChannel the
\* status is running, and it is put by a Trace call that holds the mutex or
\* takes it in that step.
Buffered(i) == \E k \in 1..Len(spanChannel) : spanChannel[k] = i

C32_NoSpanAfterStop ==
    /\ [](\A i \in Traces :
            afterStop[i] => (tracePc[i] \in {"lock", "notRunning"} /\ ~Buffered(i)))
    /\ [][ Len(spanChannel') > Len(spanChannel) =>
              /\ status = "running" /\ status' = "running"
              /\ \E i \in Traces :
                    /\ spanChannel' = Append(spanChannel, i)
                    /\ \/ statusLock = TraceCall(i)
                       \/ statusLock = Free /\ tracePc[i] = "lock" ]_vars

\* Trace call 2 put its span while the tracer ran; Stop call 1 closed the
\* stop channel and returned; Trace call 1, made after that, got the error.
C32_Witness ==
    /\ tracePc[2] = "traced" /\ closedBy = 1 /\ stopPc[1] = "returned"
    /\ afterStop[1] /\ tracePc[1] = "notRunning"

\* C33: over any number of Stop calls t.stopChannel is closed at most once;
\* every Stop call (one of the handle's holder, or the one NewTracer makes
\* after its timeout) leaves the status stopped, and after a Stop of the
\* handle's holder, or once the channel is closed, it stays stopped; a Stop
\* call that finds the status not running changes nothing of the tracer; and
\* a Stop call of the holder that waits for the mutex waits for a Trace call
\* that is able to send its span, or will be once the listener, which is
\* able to, has taken one.
StopReturns ==
    \/ newTracer = "stop" /\ newTracer' = "timedOut"
    \/ \E j \in Stops : stopPc[j] = "lock" /\ stopPc'[j] = "returned"

C33_StopIdempotent ==
    /\ [](stopChannelCloses <= 1)
    /\ []((stopChannelCloses = 1 \/ \E j \in Stops : stopPc[j] = "returned") =>
            status = "stopped")
    /\ [](\A j \in Stops : (stopPc[j] = "lock" /\ statusLock # Free) =>
            ENABLED (ListenerSpan \/ \E i \in Traces : TraceSend(i)))
    /\ [][ StopReturns =>
              /\ status' = "stopped"
              /\ status # "running" =>
                    UNCHANGED <<status, statusLock, spanChannel, stopChannelCloses,
                                listener, tracePc>> ]_vars

\* Both Stop calls of the handle's holder have returned, and the channel was
\* closed once, by the second of them to be called.
C33_Witness ==
    /\ stopPc = [j \in Stops |-> "returned"]
    /\ stopChannelCloses = 1 /\ closedBy = 2 /\ status = "stopped"

\* C34: NewTracer is never left waiting in Stop, and the listener is never
\* left on its send on t.statusChannel: the listener stands at that send only
\* while NewTracer is still in its select, the one place that receives.
C34_NewTracerAlwaysReturns ==
    ~(listener = "announce" /\ newTracer # "select")

====
